---- MODULE Spec2Model ----
(***************************************************************************)
(* Model of adjust-exif.py: geotagging photographs from a GPS track.       *)
(*                                                                         *)
(* Instants are whole seconds since 2021-01-01T00:00:00Z.  Floating-point  *)
(* values are modelled as exact rationals [num, den]; the degrees part of  *)
(* an encoded coordinate keeps the sign bit of the float (-0.0 /= 0.0).    *)
(* A call that raises is a record whose exc field names the exception.     *)
(***************************************************************************)
EXTENDS Integers, Sequences, FiniteSets, TLC

\* pc                   where adjust_main is: "load", "images", "done", or
\*                      "aborted" when an exception has left the function
\* gpx_points           dict: timestamp -> <<point, file>>
\* used_dts             list of the timestamps, in the order they were read
\* timezone_adjustment  the parameter of adjust_main, in hours
\* img_idx              position in the sorted list of image files
\* last                 what the latest pass over an image left: its tag,
\*                      exif_dt, before, after, the interpolated point, the
\*                      exception, the image in memory and the file on disk
\* call, ret            arguments and result of a function called directly
VARIABLES pc, gpx_points, used_dts, timezone_adjustment, img_idx, last,
          call, ret

vars == <<pc, gpx_points, used_dts, timezone_adjustment, img_idx, last,
          call, ret>>

\* ---------------------------------------------------------------- bounds
MaxPoints == 3
MaxTick == 3
NumPhotos == 2
MaxCoordUnits == 7300

\* ------------------------------------------------------------- rationals
RECURSIVE GCD(_, _)
GCD(a, b) == IF b = 0 THEN a ELSE GCD(b, a % b)

Abs(x) == IF x < 0 THEN -x ELSE x

Rat(n, d) ==
    LET g == GCD(Abs(n), Abs(d))
        s == IF d < 0 THEN -1 ELSE 1
    IN  [num |-> (s * n) \div g, den |-> (s * d) \div g]

RAdd(x, y) == Rat(x.num * y.den + y.num * x.den, x.den * y.den)
RSub(x, y) == Rat(x.num * y.den - y.num * x.den, x.den * y.den)
RMul(x, y) == Rat(x.num * y.num, x.den * y.den)
RLeq(x, y) == x.num * y.den <= y.num * x.den
RInt(n) == [num |-> n, den |-> 1]

\* ------------------------------------------------- datetime and timedelta
SecondsPerDay == 24 * 3600

IsLeap(y) == (y % 4 = 0 /\ y % 100 # 0) \/ y % 400 = 0

DaysInYear(y) == IF IsLeap(y) THEN 366 ELSE 365

DaysInMonth(y, m) ==
    IF m = 2 THEN (IF IsLeap(y) THEN 29 ELSE 28)
    ELSE IF m \in {4, 6, 9, 11} THEN 30 ELSE 31

RECURSIVE DaysBeforeYear(_)
DaysBeforeYear(y) ==
    IF y <= 2021 THEN 0 ELSE DaysBeforeYear(y - 1) + DaysInYear(y - 1)

RECURSIVE DaysBeforeMonth(_, _)
DaysBeforeMonth(y, m) ==
    IF m <= 1 THEN 0 ELSE DaysBeforeMonth(y, m - 1) + DaysInMonth(y, m - 1)

\* datetime(year, month, day, hour, minute, second, tzinfo=SimpleTZ("Z"))
datetime(y, mo, d, h, mi, s) ==
    (DaysBeforeYear(y) + DaysBeforeMonth(y, mo) + (d - 1)) * SecondsPerDay
        + h * 3600 + mi * 60 + s

RECURSIVE YearOf(_, _)
YearOf(days, y) ==
    IF days < DaysInYear(y) THEN <<y, days>>
    ELSE YearOf(days - DaysInYear(y), y + 1)

RECURSIVE MonthOf(_, _, _)
MonthOf(days, y, m) ==
    IF days < DaysInMonth(y, m) THEN <<m, days + 1>>
    ELSE MonthOf(days - DaysInMonth(y, m), y, m + 1)

\* the calendar date of an instant: dt.year, dt.month, dt.day
DateOf(t) ==
    LET yd == YearOf(t \div SecondsPerDay, 2021)
        md == MonthOf(yd[2], yd[1], 1)
    IN  [year |-> yd[1], month |-> md[1], day |-> md[2]]

Hour(t) == (t % SecondsPerDay) \div 3600
Minute(t) == (t % 3600) \div 60
Second(t) == t % 60

\* timedelta(hours=h)
timedelta(h) == h * 3600

\* timedelta.seconds: the seconds field of the normalised (days, seconds)
\* pair, always in 0..86399
TdSeconds(td) == td % SecondsPerDay

\* ------------------------------------------------------ strings as chars
DigitChars == <<"0", "1", "2", "3", "4", "5", "6", "7", "8", "9">>

RECURSIVE Str(_)
Str(n) == IF n < 10 THEN <<DigitChars[n + 1]>>
          ELSE Str(n \div 10) \o <<DigitChars[(n % 10) + 1]>>

\* format spec :02d
Pad2(n) == IF n < 10 THEN <<"0">> \o Str(n) ELSE Str(n)

DigitValue(c) == (CHOOSE i \in 1..10 : DigitChars[i] = c) - 1

\* int(s) for a string of decimal digits
RECURSIVE int(_)
int(s) == IF Len(s) = 1 THEN DigitValue(s[1])
          ELSE 10 * int(SubSeq(s, 1, Len(s) - 1)) + DigitValue(s[Len(s)])

\* s.find(sep) from position i on; 0 when sep does not occur
RECURSIVE Find(_, _, _)
Find(s, sep, i) ==
    IF i > Len(s) THEN 0 ELSE IF s[i] = sep THEN i ELSE Find(s, sep, i + 1)

RECURSIVE Split(_, _)
Split(s, sep) ==
    LET k == Find(s, sep, 1)
    IN  IF k = 0 THEN <<s>>
        ELSE <<SubSeq(s, 1, k - 1)>> \o Split(SubSeq(s, k + 1, Len(s)), sep)

\* the tag datetime_digitized of a photo taken at instant t:
\* "YYYY:MM:DD HH:MM:SS"
DatetimeDigitized(t) ==
    LET d == DateOf(t)
    IN  Str(d.year) \o <<":">> \o Pad2(d.month) \o <<":">> \o Pad2(d.day)
          \o <<" ">> \o Pad2(Hour(t)) \o <<":">> \o Pad2(Minute(t))
          \o <<":">> \o Pad2(Second(t))

\* ------------------------------------------------------- Coordinate codec
Raise(e) == [exc |-> e, val |-> <<>>]
Return(v) == [exc |-> "none", val |-> v]

datetime_to_exif(dt, tz_adjust) ==
    LET d == DateOf(dt)
    IN  [timestamp |-> <<Hour(dt) + tz_adjust, Minute(dt), Second(dt)>>,
         datestamp |-> Str(d.year) \o <<":">> \o Pad2(d.month)
                          \o <<":">> \o Pad2(d.day)]

\* c is a rational; the result is (sign * h, m, s) or ZeroDivisionError
gpx_to_exif(c) ==
    LET n == Abs(c.num)
        h == n \div c.den
        m == (60 * (n - h * c.den)) \div c.den
        x == 3600 * n - 3600 * h * c.den - 60 * m * c.den
        s == -((-x) \div c.den)
    IN  IF c.num = 0 THEN Raise("ZeroDivisionError")
        ELSE Return([deg |-> [neg |-> c.num < 0, mag |-> h],
                     min |-> m, sec |-> s])

\* ----------------------------------------------------------- Interpolator
\* truthiness of an optional float: None and 0.0 are falsy
Truthy(e) == e # <<>> /\ e[1].num # 0

\* before, after: [time, latitude, longitude, elevation]; elevation is
\* <<>> (None) or <<r>>
interpolate(before, after, dt) ==
    IF ~(before.time <= dt /\ dt <= after.time) THEN Raise("AssertionError")
    ELSE IF before = after THEN Return(before)
    ELSE
      LET n == TdSeconds(dt - before.time)
          d == TdSeconds(after.time - before.time)
      IN  IF d = 0 THEN Raise("ZeroDivisionError")
          ELSE
            LET ratio == Rat(n, d)
                lerp(b, a) == RAdd(b, RMul(ratio, RSub(a, b)))
            IN  IF Truthy(before.elevation) /\ after.elevation = <<>>
                THEN Raise("TypeError")
                ELSE Return(
                  [time |-> dt,
                   latitude |-> lerp(before.latitude, after.latitude),
                   longitude |-> lerp(before.longitude, after.longitude),
                   elevation |->
                      IF Truthy(before.elevation)
                      THEN <<lerp(before.elevation[1], after.elevation[1])>>
                      ELSE <<>>])

\* ---------------------------------------------------------- adjust_image
AttrNames == <<"gps_version_id", "gps_latitude_ref", "gps_latitude",
               "gps_longitude_ref", "gps_longitude", "gps_altitude_ref",
               "gps_altitude", "gps_timestamp", "gps_datestamp">>

NumSets == Len(AttrNames)

AttrSet == {AttrNames[i] : i \in 1..NumSets}

\* an image without GPS attributes; an attribute is <<>> (unset) or <<v>>
EmptyImg == [a \in AttrSet |-> <<>>]

IsPositive(r) == r.num > 0

\* the adjustment applied a second time when the time is encoded
ts_adjusted_again(point) == datetime_to_exif(point.time, -2)

\* ts = datetime_to_exif(point.time): tz_adjust is left at its default 0
ts(point) == datetime_to_exif(point.time, 0)

\* the argument of the k-th img.set call of adjust_image, or the exception
\* raised while it is evaluated
SetArg(k, point) ==
    CASE k = 1 -> Return(2)
      [] k = 2 -> Return(IF IsPositive(point.latitude) THEN "N" ELSE "S")
      [] k = 3 -> gpx_to_exif(point.latitude)
      [] k = 4 -> Return(IF IsPositive(point.longitude) THEN "E" ELSE "W")
      [] k = 5 -> gpx_to_exif(point.longitude)
      [] k = 6 -> IF point.elevation = <<>> THEN Raise("TypeError")
                  ELSE Return(IF IsPositive(point.elevation[1])
                              THEN 0 ELSE -1)
      [] k = 7 -> Return(point.elevation)
      [] k = 8 -> Return(ts(point).timestamp)
      [] k = 9 -> Return(ts(point).datestamp)

\* img.set(name, value) of the external writer: fails with RuntimeError
\* when rejects is TRUE, else stores the value
ImgSet(img, name, value, rejects) ==
    IF rejects THEN [img |-> img, exc |-> "RuntimeError"]
    ELSE [img |-> [img EXCEPT ![name] = <<value>>], exc |-> "none"]

\* the calls of adjust_image from the k-th on; failAt is the call the
\* writer rejects (0: none)
RECURSIVE AdjustFrom(_, _, _, _)
AdjustFrom(k, img, point, failAt) ==
    IF k > NumSets THEN [img |-> img, exc |-> "none"]
    ELSE LET arg == SetArg(k, point)
         IN  IF arg.exc # "none" THEN [img |-> img, exc |-> arg.exc]
             ELSE LET r == ImgSet(img, AttrNames[k], arg.val, failAt = k)
                  IN  IF r.exc # "none" THEN r
                      ELSE AdjustFrom(k + 1, r.img, point, failAt)

adjust_image(img, point, failAt) == AdjustFrom(1, img, point, failAt)

\* ------------------------------------------------------------ input sets
TimeStep == 12 * 3600

\* the recorder's clock (UTC) and the camera's clock (two hours ahead)
TrackTime(k) == datetime(2021, 7, 31, 11, 19, 17) + k * TimeStep
PhotoTime(k) == datetime(2021, 7, 31, 13, 19, 17) + k * TimeStep

TzChoices == {-2, 0}

\* the img.set call the writer rejects: none, or the latitude triple
FailChoices == {0, 3}

\* the fix the recorder took at tick k; it had no altitude at tick 0
TrackPoint(k) ==
    [time |-> TrackTime(k),
     latitude |-> RInt(10 + k),
     longitude |-> Rat(-29 - k, 2),
     elevation |-> IF k = 0 THEN <<>> ELSE <<RInt(257 + k)>>]

TrackPoints == {TrackPoint(k) : k \in 0..MaxTick}

\* --------------------------------------------------------- adjust_main
\* sorted(xs): a new ascending list; xs itself is left as it is
RECURSIVE sorted(_)
sorted(xs) ==
    IF xs = <<>> THEN <<>>
    ELSE LET k == CHOOSE i \in 1..Len(xs) : \A j \in 1..Len(xs) : xs[i] <= xs[j]
         IN  <<xs[k]>> \o sorted(SubSeq(xs, 1, k - 1) \o SubSeq(xs, k + 1, Len(xs)))

\* gpx_points[key] = value
DictSet(dict, key, value) ==
    [k \in DOMAIN dict \cup {key} |-> IF k = key THEN value ELSE dict[k]]

\* the scan "for u in used_dts" from position i on, with the value before
\* has so far; <<>> is None
RECURSIVE Scan(_, _, _, _)
Scan(dts, i, before, q) ==
    IF i > Len(dts) THEN [before |-> before, after |-> <<>>]
    ELSE LET u == dts[i]
             b == IF u <= q THEN <<u>> ELSE before
         IN  IF u >= q THEN [before |-> b, after |-> <<u>>]
             ELSE Scan(dts, i + 1, b, q)

Bracket(dts, q) == Scan(dts, 1, <<>>, q)

\* the query time of a photo from its tag datetime_digitized
exif_dt(digitized, tz) ==
    LET parts == Split(digitized, " ")
        d_p == Split(parts[1], ":")
        t_p == Split(parts[2], ":")
    IN  datetime(int(d_p[1]), int(d_p[2]), int(d_p[3]),
                 int(t_p[1]), int(t_p[2]), int(t_p[3])) + timedelta(tz)

\* except RuntimeError
Caught(exc) == exc = "RuntimeError"

\* the file rewritten whether or not an error was recorded
ShouldWrite_always(error) == TRUE

\* if not error: the file is rewritten
ShouldWrite(error) == ~error

\* one pass of the loop over the images for a photo with the given tag,
\* whose file holds EmptyImg: what the pass leaves behind
ImagePass(digitized, failAt) ==
    LET q == exif_dt(digitized, timezone_adjustment)
        br == Bracket(used_dts, q)
        base == [digitized |-> digitized, exif_dt |-> q,
                 before |-> br.before, after |-> br.after]
    IN  IF br.before = <<>> \/ br.after = <<>>
        THEN base @@ [status |-> "skipped", exc |-> "none", point |-> <<>>,
                      img |-> EmptyImg, file |-> EmptyImg]
        ELSE
          LET r == interpolate(gpx_points[br.before[1]][1],
                               gpx_points[br.after[1]][1], q)
              a == IF r.exc # "none" THEN [img |-> EmptyImg, exc |-> r.exc]
                   ELSE adjust_image(EmptyImg, r.val, failAt)
              error == Caught(a.exc)
              crashed == a.exc # "none" /\ ~error
              written == ~crashed /\ ShouldWrite(error)
          IN  base @@ [status |-> IF crashed THEN "crashed"
                                  ELSE IF written THEN "written"
                                  ELSE "error",
                       exc |-> a.exc,
                       point |-> IF r.exc = "none" THEN <<r.val>> ELSE <<>>,
                       img |-> a.img,
                       file |-> IF written THEN a.img ELSE EmptyImg]

NoPhoto == [status |-> "none"]
NoCall == [fn |-> "none"]
Pending == [exc |-> "pending", val |-> <<>>]

InitMain ==
    /\ pc = "load"
    /\ gpx_points = <<>>
    /\ used_dts = <<>>
    /\ timezone_adjustment \in TzChoices
    /\ img_idx = 1
    /\ last = NoPhoto

Init == InitMain /\ call = NoCall /\ ret = Pending

\* one pass of "for point in segment.points", in any of the track files
LoadPoint ==
    /\ pc = "load"
    /\ Len(used_dts) < MaxPoints
    /\ \E point \in TrackPoints :
         /\ gpx_points' = DictSet(gpx_points, point.time, <<point, "gpx_file">>)
         /\ used_dts' = Append(used_dts, point.time)
    /\ UNCHANGED <<pc, timezone_adjustment, img_idx, last, call, ret>>

\* after the last track file: the statement sorted(used_dts), whose
\* result is not bound to anything
EndLoad ==
    /\ pc = "load"
    /\ LET unused == sorted(used_dts) IN used_dts' = used_dts
    /\ pc' = "images"
    /\ UNCHANGED <<gpx_points, timezone_adjustment, img_idx, last, call, ret>>

\* one pass of "for img_file in sorted(...)"
ProcessImage ==
    /\ pc = "images"
    /\ img_idx <= NumPhotos
    /\ \E k \in 0..MaxTick, failAt \in FailChoices :
         LET b == ImagePass(DatetimeDigitized(PhotoTime(k)), failAt)
         IN  /\ last' = b
             /\ pc' = IF b.status = "crashed" THEN "aborted" ELSE pc
    /\ img_idx' = img_idx + 1
    /\ UNCHANGED <<gpx_points, used_dts, timezone_adjustment, call, ret>>

\* the loop over the images is exhausted
Finish ==
    /\ pc = "images"
    /\ img_idx > NumPhotos
    /\ pc' = "done"
    /\ UNCHANGED <<gpx_points, used_dts, timezone_adjustment, img_idx, last,
                   call, ret>>

Next == LoadPoint \/ EndLoad \/ ProcessImage \/ Finish

Spec == Init /\ [][Next]_vars

\* ------------------------------------------- the functions called directly
CoordDen == 2 * 3600

\* decimal degrees in steps of half an arc second
CoordValues == {Rat(n, CoordDen) : n \in (-MaxCoordUnits)..MaxCoordUnits}

FnPoints ==
    [time : {TrackTime(k) : k \in 0..MaxTick},
     latitude : {RInt(10), RInt(11)},
     longitude : {Rat(-29, 2)},
     elevation : {<<>>, <<RInt(0)>>, <<RInt(257)>>}]

FnTimes == {TrackTime(0) + j * (TimeStep \div 2) : j \in 0..(2 * MaxTick)}

AdjPoints ==
    [time : {TrackTime(0)},
     latitude : {Rat(-1, 2), RInt(0), Rat(3, 2)},
     longitude : {Rat(-1, 2), RInt(0), Rat(3, 2)},
     elevation : {<<>>, <<RInt(-5)>>, <<RInt(0)>>, <<RInt(257)>>}]

InitFn ==
    /\ pc = "load"
    /\ gpx_points = <<>>
    /\ used_dts = <<>>
    /\ timezone_adjustment = -2
    /\ img_idx = 1
    /\ last = NoPhoto
    /\ ret = Pending
    /\ \/ call \in [fn : {"interpolate"}, before : FnPoints, after : FnPoints,
                    dt : FnTimes]
       \/ call \in [fn : {"gpx_to_exif"}, c : CoordValues]
       \/ call \in [fn : {"adjust_image"}, point : AdjPoints,
                    failAt : FailChoices]

CallInterpolate ==
    /\ call.fn = "interpolate"
    /\ ret.exc = "pending"
    /\ ret' = interpolate(call.before, call.after, call.dt)
    /\ UNCHANGED <<pc, gpx_points, used_dts, timezone_adjustment, img_idx,
                   last, call>>

CallGpxToExif ==
    /\ call.fn = "gpx_to_exif"
    /\ ret.exc = "pending"
    /\ ret' = gpx_to_exif(call.c)
    /\ UNCHANGED <<pc, gpx_points, used_dts, timezone_adjustment, img_idx,
                   last, call>>

CallAdjustImage ==
    /\ call.fn = "adjust_image"
    /\ ret.exc = "pending"
    /\ LET a == adjust_image(EmptyImg, call.point, call.failAt)
       IN  ret' = [exc |-> a.exc, val |-> a.img]
    /\ UNCHANGED <<pc, gpx_points, used_dts, timezone_adjustment, img_idx,
                   last, call>>

NextFn == CallInterpolate \/ CallGpxToExif \/ CallAdjustImage

SpecFn == InitFn /\ [][NextFn]_vars

\* ================================================================ claims
Processed == last.status # "none"
Bracketed == Processed /\ last.before # <<>> /\ last.after # <<>>
Keys == DOMAIN gpx_points
Returned(fn) == call.fn = fn /\ ret.exc # "pending"

\* C1: whenever a bracket is returned for a photo, before is the greatest
\* indexed timestamp <= the query time and after is the least indexed
\* timestamp >= the query time.
C1_BracketIsTemporallyAdjacent ==
    Bracketed =>
        /\ last.before[1] <= last.exif_dt
        /\ last.after[1] >= last.exif_dt
        /\ \A u \in Keys : u <= last.exif_dt => u <= last.before[1]
        /\ \A u \in Keys : u >= last.exif_dt => u >= last.after[1]

\* C2: a photo is skipped exactly when its query time precedes every
\* indexed timestamp or follows every indexed timestamp.
C2_SkippedExactlyOutsideSpan ==
    Processed =>
        (last.status = "skipped" <=>
            \/ \A u \in Keys : last.exif_dt < u
            \/ \A u \in Keys : last.exif_dt > u)

\* C4: a failure raised while the attributes of a photo are encoded or
\* written is caught for that photo, and the run goes on.
C4_FailuresAreIsolated ==
    (Processed /\ last.exc # "none") =>
        (last.status = "error" /\ pc # "aborted")

\* C5: the file of a photo is rewritten only if a bracket was found and no
\* error occurred; it is then written whole (all attributes); the file of
\* a skipped or failed photo is as it was.
C5_FileRewrittenOnlyOnSuccess ==
    Processed =>
        /\ last.file # EmptyImg =>
              /\ Bracketed
              /\ last.exc = "none"
              /\ last.file = last.img
              /\ \A a \in AttrSet : last.file[a] # <<>>
        /\ last.status \in {"skipped", "error", "crashed"} =>
              last.file = EmptyImg

\* a second photo whose write was rejected half way: attributes were set
\* in memory, the file is as it was
C5_Witness ==
    /\ img_idx > 2
    /\ last.status = "error"
    /\ last.img # EmptyImg
    /\ last.file = EmptyImg

\* C6: when the sample before the query time has no elevation, interpolate
\* returns a sample without elevation and encoding it raises nothing (the
\* writer may still reject a value).
C6_MissingElevationNeverRaises ==
    (Bracketed /\ gpx_points[last.before[1]][1].elevation = <<>>
       /\ last.point # <<>>) =>
        /\ last.point[1].elevation = <<>>
        /\ last.exc \in {"none", "RuntimeError"}

\* the clock fields of the tag datetime_digitized
DigitizedFields(digitized) ==
    LET parts == Split(digitized, " ")
        d_p == Split(parts[1], ":")
        t_p == Split(parts[2], ":")
    IN  [year |-> int(d_p[1]), month |-> int(d_p[2]), day |-> int(d_p[3]),
         hour |-> int(t_p[1]), minute |-> int(t_p[2]), second |-> int(t_p[3])]

Datestamp(d) ==
    Str(d.year) \o <<":">> \o Pad2(d.month) \o <<":">> \o Pad2(d.day)

\* C9: for a photo that is written the encoded time of day is the
\* digitized time plus the timezone adjustment, once, modulo 24 hours, and
\* the date is the digitized date moved by the days the adjustment
\* crosses; datetime_to_exif itself adds tz_adjust to the hour only.
C9_TimezoneAppliedOnce ==
    /\ (Processed /\ last.status = "written") =>
          LET f == DigitizedFields(last.digitized)
              h == f.hour + timezone_adjustment
              midnight == datetime(f.year, f.month, f.day, 0, 0, 0)
              date == DateOf(midnight + (h \div 24) * SecondsPerDay)
          IN  /\ last.file["gps_timestamp"] = <<<<h % 24, f.minute, f.second>>>>
              /\ last.file["gps_timestamp"][1][1] \in 0..23
              /\ last.file["gps_datestamp"] = <<Datestamp(date)>>
    /\ datetime_to_exif(datetime(2021, 8, 2, 15, 19, 17), -2)
          = [timestamp |-> <<13, 19, 17>>,
             datestamp |-> <<"2", "0", "2", "1", ":", "0", "8", ":", "0", "2">>]
    /\ datetime_to_exif(datetime(2021, 8, 1, 1, 19, 17), -2)
          = [timestamp |-> <<-1, 19, 17>>,
             datestamp |-> <<"2", "0", "2", "1", ":", "0", "8", ":", "0", "1">>]

\* a photo written under the adjustment of -2 hours whose query time falls
\* on the day before the digitized date
C9_Witness ==
    /\ Processed
    /\ last.status = "written"
    /\ timezone_adjustment = -2
    /\ DateOf(last.exif_dt).day # DigitizedFields(last.digitized).day

\* C10: whenever interpolate is called for a photo, before <= query time
\* <= after, so its assertion does not fire; and when the query time is an
\* indexed timestamp, before and after are that sample and it is returned
\* unchanged.
C10_PreconditionAndExactHit ==
    Bracketed =>
        /\ last.before[1] <= last.exif_dt
        /\ last.exif_dt <= last.after[1]
        /\ last.exc # "AssertionError"
        /\ last.exif_dt \in Keys =>
              /\ last.before[1] = last.exif_dt
              /\ last.after[1] = last.exif_dt
              /\ last.point = <<gpx_points[last.exif_dt][1]>>

\* C3: for before.time <= q <= after.time and distinct samples, the ratio
\* is defined, is the elapsed fraction (q - before.time) / (after.time -
\* before.time) and lies in [0, 1]; latitude and longitude are
\* before + ratio * (after - before).  (Stated for samples whose
\* elevations let the call return.)
C3_RatioIsElapsedFraction ==
    (/\ Returned("interpolate")
     /\ call.before.time < call.after.time
     /\ call.before.time <= call.dt
     /\ call.dt <= call.after.time
     /\ (Truthy(call.before.elevation) => call.after.elevation # <<>>)) =>
        LET r == Rat(call.dt - call.before.time,
                     call.after.time - call.before.time)
            at(b, a) == RAdd(b, RMul(r, RSub(a, b)))
        IN  /\ ret.exc = "none"
            /\ RLeq(RInt(0), r) /\ RLeq(r, RInt(1))
            /\ ret.val.latitude = at(call.before.latitude, call.after.latitude)
            /\ ret.val.longitude
                  = at(call.before.longitude, call.after.longitude)

\* C7: gpx_to_exif(v) returns (d, m, s) with m, s >= 0, with
\* |d| + m/60 + s/3600 >= |v|, and with d carrying the sign of v, for
\* every v, zero included.
C7_TripleCoversMagnitude ==
    Returned("gpx_to_exif") =>
        /\ ret.exc = "none"
        /\ ret.val.min >= 0
        /\ ret.val.sec >= 0
        /\ (3600 * ret.val.deg.mag + 60 * ret.val.min + ret.val.sec)
               * call.c.den >= 3600 * Abs(call.c.num)
        /\ ret.val.deg.neg <=> call.c.num < 0

\* C8: zero is encoded on the positive side: latitude 0 gets "N",
\* longitude 0 gets "E", and the below-sea-level reference is set exactly
\* when the elevation is < 0.
C8_ZeroIsPositive ==
    Returned("adjust_image") =>
        /\ (call.point.latitude.num = 0 /\ ret.val["gps_latitude_ref"] # <<>>)
              => ret.val["gps_latitude_ref"] = <<"N">>
        /\ (call.point.longitude.num = 0 /\ ret.val["gps_longitude_ref"] # <<>>)
              => ret.val["gps_longitude_ref"] = <<"E">>
        /\ ret.val["gps_altitude_ref"] # <<>>
              => (ret.val["gps_altitude_ref"] = <<-1>>
                    <=> call.point.elevation[1].num < 0)

====
